---- MODULE Spec2Model ----
(***************************************************************************)
(* IPL analytics dashboard (src/app.py): a Streamlit script that is rerun  *)
(* from top to bottom on every widget change.  One rerun loads the two     *)
(* cached tables, filters the match table by season and team, and derives  *)
(* the KPI scalars and the chart tables with pandas.                       *)
(*                                                                         *)
(* A DataFrame is [columns, index, rows]: the column labels in order, the  *)
(* row labels in order, and one record per row.  A Series is               *)
(* [name, index_name, index, values].  String columns have dtype object    *)
(* and their missing value is NaN; result_margin is float64 and its        *)
(* missing value is FloatNaN.                                              *)
(***************************************************************************)
EXTENDS Integers, Sequences, FiniteSets, TLC

(***************************************************************************)
(* Values and dtypes                                                       *)
(***************************************************************************)
NaN == "NaN"

FloatNaN == 0 - 1

Dtype(c) ==
    CASE c = "result_margin" -> "float64"
      [] c \in {"id", "batsman_runs", "is_wicket", "count", "Matches",
                "Wins", "Count", "Awards", "Total Runs", "Wickets"} -> "int64"
      [] c = "toss_match_win" -> "bool"
      [] OTHER -> "object"

\* pd.isna for a cell of column c
IsNa(c, v) ==
    CASE Dtype(c) = "object" -> v = NaN
      [] Dtype(c) = "float64" -> v = FloatNaN
      [] OTHER -> FALSE

\* Python's ordering of the strings the tables hold (groupby sorts its keys)
SortOrder ==
    <<"2020", "2021", "2022", "A", "B", "C",
      "P01", "P02", "P03", "P04", "P05", "P06",
      "P07", "P08", "P09", "P10", "P11", "P12", "P13">>

RankOf(v) == CHOOSE i \in 1..Len(SortOrder) : SortOrder[i] = v

Range(s) == {s[i] : i \in 1..Len(s)}

Iota(n) == [i \in 1..n |-> i]

Min(a, b) == IF a < b THEN a ELSE b

\* the elements of vals at the positions pos, in the order of pos
Pick(vals, pos) == [k \in 1..Len(pos) |-> vals[pos[k]]]

(***************************************************************************)
(* Orderings.  OrderDesc(keys) is the permutation that lists the positions *)
(* of keys by descending key, equal keys in their original order.          *)
(***************************************************************************)
OrderDesc(keys) ==
    LET place(j) == 1 + Cardinality({m \in 1..Len(keys) :
                         \/ keys[m] > keys[j]
                         \/ (keys[m] = keys[j] /\ m < j)})
    IN  [p \in 1..Len(keys) |-> CHOOSE j \in 1..Len(keys) : place(j) = p]

OrderAsc(keys) == OrderDesc([i \in 1..Len(keys) |-> 0 - keys[i]])

\* the positions of vals that hold the first occurrence of their value
FirstOccurrences(vals) ==
    SelectSeq(Iota(Len(vals)),
              LAMBDA j : \A m \in 1..(j - 1) : vals[m] # vals[j])

\* the distinct values of vals, in the order of their first occurrence
Distinct(vals) == Pick(vals, FirstOccurrences(vals))

CountOf(vals, v) == Cardinality({i \in 1..Len(vals) : vals[i] = v})

RECURSIVE SumSeq(_)
SumSeq(s) == IF s = <<>> THEN 0 ELSE Head(s) + SumSeq(Tail(s))

(***************************************************************************)
(* pandas operations used by the script                                    *)
(***************************************************************************)
\* df[c]
Column(df, c) ==
    [name |-> c, index_name |-> "index", index |-> df.index,
     values |-> [i \in 1..Len(df.rows) |-> df.rows[i][c]]]

\* positional selection of rows (take)
TakeRows(df, pos) ==
    [columns |-> df.columns,
     index |-> Pick(df.index, pos),
     rows |-> Pick(df.rows, pos)]

\* df[mask], mask a sequence of booleans aligned with the rows
BoolIndex(df, mask) ==
    TakeRows(df, SelectSeq(Iota(Len(df.rows)), LAMBDA i : mask[i]))

\* df[[c1, c2, ...]]
Project(df, cols) ==
    [columns |-> cols, index |-> df.index,
     rows |-> [i \in 1..Len(df.rows) |-> [c \in Range(cols) |-> df.rows[i][c]]]]

\* the values of a Series that are not missing
DropNa(s) == SelectSeq(s.values, LAMBDA v : ~IsNa(s.name, v))

\* Series.nunique(): dropna=True
Nunique(s) == Cardinality(Range(DropNa(s)))

\* the counts of keys in vals, as a Series sorted by descending count
CountSeries(name, keys, cnts, ord) ==
    [name |-> "count", index_name |-> name,
     index |-> Pick(keys, ord), values |-> Pick(cnts, ord)]

Tally(name, keys, cnts) == CountSeries(name, keys, cnts, OrderDesc(cnts))

TallyOf(name, vals, keys) ==
    Tally(name, keys, [k \in 1..Len(keys) |-> CountOf(vals, keys[k])])

ValueCountsOf(name, vals) == TallyOf(name, vals, Distinct(vals))

\* mutation of ValueCounts: dropna=False, a missing value is a category
ValueCountsMissingKept(s) == ValueCountsOf(s.name, s.values)

\* Series.value_counts(): dropna=True, sorted by descending count

ValueCounts(s) == ValueCountsOf(s.name, DropNa(s))

\* Series.head(n)
HeadSeries(s, n) ==
    [s EXCEPT !.index = SubSeq(s.index, 1, Min(n, Len(s.index))),
              !.values = SubSeq(s.values, 1, Min(n, Len(s.values)))]

\* DataFrame.head(n)
HeadFrame(df, n) ==
    [df EXCEPT !.index = SubSeq(df.index, 1, Min(n, Len(df.index))),
               !.rows = SubSeq(df.rows, 1, Min(n, Len(df.rows)))]

\* the rows of Series.reset_index()
IndexedRows(s) ==
    [i \in 1..Len(s.values) |->
        [c \in {s.index_name, s.name} |->
            IF c = s.index_name THEN s.index[i] ELSE s.values[i]]]

\* mutation of ResetIndex: the columns are taken from the rows, so an empty
\* Series gives a frame without columns
ResetIndexFromRows(s) ==
    [columns |-> IF Len(s.values) = 0 THEN <<>> ELSE <<s.index_name, s.name>>,
     index |-> [i \in 1..Len(s.values) |-> i - 1],
     rows |-> IndexedRows(s)]

\* Series.reset_index(): the index becomes the first column, under a RangeIndex
ResetIndex(s) ==
    [columns |-> <<s.index_name, s.name>>,
     index |-> [i \in 1..Len(s.values) |-> i - 1],
     rows |-> IndexedRows(s)]

\* Series.reset_index(name=...)
ResetIndexAs(s, nm) == ResetIndex([s EXCEPT !.name = nm])

\* df.columns = names: a ValueError (length mismatch) unless there are as many
\* names as columns.  [ok, value]
SetColumns(df, names) ==
    IF Len(names) # Len(df.columns)
    THEN [ok |-> FALSE, value |-> df]
    ELSE [ok |-> TRUE,
          value |->
            [columns |-> names, index |-> df.index,
             rows |-> [i \in 1..Len(df.rows) |->
                         [c \in Range(names) |->
                            df.rows[i][df.columns[
                               CHOOSE k \in 1..Len(names) : names[k] = c]]]]]]

\* the keys in ascending order
SortKeys(ks) == Pick(ks, OrderAsc([k \in 1..Len(ks) |-> RankOf(ks[k])]))

\* the group keys of df.groupby(key): the non-missing values, ascending
GroupKeys(df, key) == SortKeys(Distinct(DropNa(Column(df, key))))

SizeSeries(key, vals, ks) ==
    [name |-> "size", index_name |-> key, index |-> ks,
     values |-> [k \in 1..Len(ks) |-> CountOf(vals, ks[k])]]

\* df.groupby(key).size()
GroupBySize(df, key) == SizeSeries(key, Column(df, key).values, GroupKeys(df, key))

\* the sum of col over the rows of df whose key is k
GroupSum(df, key, col, k) ==
    SumSeq(Column(BoolIndex(df, [i \in 1..Len(df.rows) |-> df.rows[i][key] = k]),
                  col).values)

SumSeries(df, key, col, ks) ==
    [name |-> col, index_name |-> key, index |-> ks,
     values |-> [k \in 1..Len(ks) |-> GroupSum(df, key, col, ks[k])]]

\* df.groupby(key)[col].sum()
GroupBySum(df, key, col) == SumSeries(df, key, col, GroupKeys(df, key))

\* df.sort_values(col, ascending=False); rows of equal value stay in row order
SortValuesDesc(df, col) == TakeRows(df, OrderDesc(Column(df, col).values))

\* the rows of df from the last to the first
Reversed(df) == TakeRows(df, [i \in 1..Len(df.rows) |-> Len(df.rows) + 1 - i])

\* mutation of NLargest: keep="last"
NLargestKeepLast(df, n, col) == HeadFrame(SortValuesDesc(Reversed(df), col), n)

\* df.nlargest(n, col), keep="first": the n rows with the largest col, by
\* descending col, equal values in row order; a missing value (FloatNaN, below
\* every margin) comes last

NLargest(df, n, col) == HeadFrame(SortValuesDesc(df, col), n)

\* Series.map({True: "Yes", False: "No"}): any other value becomes NaN
MapYesNo(s) ==
    [s EXCEPT !.values =
        [i \in 1..Len(s.values) |->
           CASE s.values[i] = TRUE -> "Yes"
             [] s.values[i] = FALSE -> "No"
             [] OTHER -> NaN]]

\* element-wise == of two object Series: a missing value equals nothing
SeriesEq(a, b) ==
    [i \in 1..Len(a.values) |->
        /\ ~IsNa(a.name, a.values[i])
        /\ ~IsNa(b.name, b.values[i])
        /\ a.values[i] = b.values[i]]

(***************************************************************************)
(* Bounds of the input tables                                              *)
(***************************************************************************)
\* lines of a freely chosen matches.csv
MaxMatches == 2

\* lines of a freely chosen deliveries.csv
MaxDeliveries == 3

\* lines of a patterned (long) matches.csv
MaxLong == 11

TopN == 10

Seasons == {"2020", "2021"}

Teams == {"A", "B", "C"}

Players == <<"P01", "P02", "P03", "P04", "P05", "P06",
             "P07", "P08", "P09", "P10", "P11", "P12", "P13">>

MatchColumns ==
    <<"id", "season", "city", "date", "team1", "team2", "toss_winner",
      "toss_decision", "winner", "result", "result_margin", "venue",
      "player_of_match">>

DeliveryColumns ==
    <<"match_id", "batter", "bowler", "batsman_runs", "is_wicket",
      "dismissal_kind">>

\* one line of matches.csv (the date still a string)
MatchRow(season, team1, team2, toss_winner, toss_decision, winner, result, result_margin, venue, city, player_of_match) ==
    [id |-> 0, season |-> season, city |-> city, date |-> "2020-04-01",
     team1 |-> team1, team2 |-> team2, toss_winner |-> toss_winner,
     toss_decision |-> toss_decision, winner |-> winner, result |-> result,
     result_margin |-> result_margin, venue |-> venue,
     player_of_match |-> player_of_match]

\* one line of deliveries.csv
DeliveryRow(batter, bowler, batsman_runs, is_wicket, dismissal_kind) ==
    [match_id |-> 1, batter |-> batter, bowler |-> bowler,
     batsman_runs |-> batsman_runs, is_wicket |-> is_wicket,
     dismissal_kind |-> dismissal_kind]

\* pd.read_csv: the lines in file order under a RangeIndex; the id column of
\* matches.csv numbers the lines
ReadMatches(lines) ==
    [columns |-> MatchColumns,
     index |-> [i \in 1..Len(lines) |-> i - 1],
     rows |-> [i \in 1..Len(lines) |-> [lines[i] EXCEPT !.id = i]]]

ReadDeliveries(lines) ==
    [columns |-> DeliveryColumns,
     index |-> [i \in 1..Len(lines) |-> i - 1],
     rows |-> lines]

\* pd.to_datetime on an ISO date string: <<year, month, day>>
ToDatetime(str) ==
    CASE str = "2020-04-01" -> <<2020, 4, 1>>
      [] OTHER -> <<1970, 1, 1>>

\* matches["date"] = pd.to_datetime(matches["date"])
ParseDates(m) ==
    [m EXCEPT !.rows = [i \in 1..Len(@) |->
                          [@[i] EXCEPT !.date = ToDatetime(@)]]]

\* load_data(): both files read, the date column parsed
load_data(mlines, dlines) ==
    [matches |-> ParseDates(ReadMatches(mlines)),
     deliveries |-> ReadDeliveries(dlines)]

\* the files of 1 to n lines, each line from S
Seqs(S, n) == UNION {[1..k -> S] : k \in 1..n}

(***************************************************************************)
(* The input files the model is checked on.  Freely chosen tables vary one *)
(* group of columns at a time; patterned tables are long enough for the    *)
(* top-10 selections to cut.                                               *)
(***************************************************************************)
\* fixtures: the season and the two teams vary
FixtureRows ==
    {MatchRow(s, p[1], p[2], p[1], "bat", p[1], "runs", 1, "V1", "C1", "P01") :
        s \in Seasons, p \in {<<"A", "B">>, <<"B", "C">>, <<"C", "A">>}}

\* outcomes: toss, winner (missing for a no-result match), result and margin vary
OutcomeRows ==
    {MatchRow("2020", "A", "B", "A", "bat", "A", "runs", 1, "V1", "C1", "P01"),
     MatchRow("2020", "A", "B", "B", "field", "A", "runs", 2, "V1", "C1", "P02"),
     MatchRow("2020", "A", "B", "B", "field", "B", "wickets", 1, "V1", "C1", "P01"),
     MatchRow("2021", "A", "B", "A", "bat", NaN, "no result", FloatNaN, "V1", "C1", NaN),
     MatchRow("2021", "B", "C", "B", "field", "C", "wickets", 2, "V1", "C1", "P02"),
     MatchRow("2021", "B", "C", "C", "bat", "C", "runs", 1, "V1", "C1", "P03")}

\* places: the venue and the city (missing in some lines) vary
PlaceRows ==
    {MatchRow(IF c = "C2" THEN "2021" ELSE "2020", "A", "B", "A", "bat", "A",
              "runs", 1, v, c, "P01") :
        v \in {"V1", "V2"}, c \in {"C1", "C2", NaN}}

\* a long match table: n lines, the margins and result types in a pattern
LongMatches(n, a, b, k) ==
    [i \in 1..n |->
        MatchRow(IF i % 4 = 0 THEN "2021" ELSE "2020",
                 "A", IF i % 5 = 0 THEN "C" ELSE "B", "A", "bat", "A",
                 IF i % k = 0 THEN "wickets" ELSE "runs",
                 1 + ((a * i + b) % 3), "V1", "C1", Players[1 + (i % 3)])]

DeliveryRows ==
    {DeliveryRow("P01", "P02", 0, 1, "caught"),
     DeliveryRow("P01", "P02", 1, 1, "run out"),
     DeliveryRow("P01", "P03", 0, 1, "bowled"),
     DeliveryRow("P04", "P03", 0, 1, "run out"),
     DeliveryRow("P01", "P02", 4, 0, NaN),
     DeliveryRow("P04", "P03", 1, 0, NaN)}

\* a long delivery table: n wicket balls shared among k bowlers, every fifth
\* a run out
LongDeliveries(n, k) ==
    [i \in 1..n |->
        DeliveryRow(Players[1 + ((i * i) % k)], Players[1 + (i % k)],
                    i % 3, 1,
                    IF i % 5 = 0 THEN "run out" ELSE "caught")]

DefaultMatchLines ==
    <<MatchRow("2020", "A", "B", "A", "bat", "A", "runs", 1, "V1", "C1", "P01"),
      MatchRow("2021", "B", "C", "C", "field", "B", "wickets", 2, "V2", "C2", "P02")>>

DefaultDeliveryLines ==
    <<DeliveryRow("P01", "P02", 4, 0, NaN),
      DeliveryRow("P01", "P02", 0, 1, "caught"),
      DeliveryRow("P04", "P02", 1, 1, "run out"),
      DeliveryRow("P04", "P03", 0, 1, "bowled")>>

\* the files of Spec: the match table varies
MatchFiles ==
    {[m |-> ml, d |-> DefaultDeliveryLines] :
        ml \in Seqs(FixtureRows, MaxMatches) \cup Seqs(OutcomeRows, MaxMatches)
               \cup Seqs(PlaceRows, MaxMatches)} \cup
    {[m |-> LongMatches(n, a, b, k), d |-> DefaultDeliveryLines] :
        n \in (MaxLong - 1)..MaxLong, a \in 0..2, b \in 0..1,
        k \in {3, MaxLong + 2}}

\* the files of SpecDeliveries: the delivery table varies
DeliveryFiles ==
    {[m |-> DefaultMatchLines, d |-> dl] : dl \in Seqs(DeliveryRows, MaxDeliveries)} \cup
    {[m |-> DefaultMatchLines, d |-> LongDeliveries(n, k)] :
        n \in {MaxLong + 1, 2 * MaxLong}, k \in {2, MaxLong, MaxLong + 1}}

\* the files of SpecHistory: a few fixtures
HistoryFiles ==
    {[m |-> ml, d |-> DefaultDeliveryLines] :
        ml \in Seqs({r \in FixtureRows : r.team1 # "C"}, MaxMatches)}

(***************************************************************************)
(* State                                                                   *)
(***************************************************************************)
VARIABLES
    files,            \* matches.csv and deliveries.csv: their lines
    cache,            \* what st.cache_data holds for load_data()
    matches, deliveries,
    selected_season, selected_team,
    df, kpi,
    wins, toss, season_matches, df_toss, toss_effect, venue_counts, potm,
    top_batsmen, top_bowlers, by_runs, by_wkts, raw,
    rendered,         \* the charts handed to st.plotly_chart / st.dataframe, in order
    status,           \* "new", "done", or "error" when the script raised
    snap              \* history: the selections and the page of an earlier run

vars ==
    <<files, cache, matches, deliveries, selected_season, selected_team, df,
      kpi, wins, toss, season_matches, df_toss, toss_effect, venue_counts, potm,
      top_batsmen, top_bowlers, by_runs, by_wkts, raw, rendered, status, snap>>

\* a name the script has not bound
Unset == [columns |-> <<>>, index |-> <<>>, rows |-> <<>>]

Charts ==
    <<"wins", "toss", "season_matches", "toss_effect", "venue_counts", "potm",
      "top_batsmen", "top_bowlers", "by_runs", "by_wkts", "raw">>

(***************************************************************************)
(* Objects.  The script's names refer to DataFrame objects; heap maps an   *)
(* object to its current value.  copy() and df[mask] make a new object,    *)
(* df[c] = ... writes the object the name refers to.  A pair [heap, ref]   *)
(* is a heap and the object a name refers to in it.                        *)
(***************************************************************************)
Objects == {"matches", "deliveries", "copy1", "sel1", "sel2", "copy2"}

\* mutation of Copy: no copy is made, the name refers to the same object
CopyAliased(heap, ref, new) == [heap |-> heap, ref |-> ref]

\* ref.copy(), the copy stored as object new

Copy(heap, ref, new) ==
    [heap |-> [heap EXCEPT ![new] = heap[ref]], ref |-> new]

\* ref[mask], the selection stored as object new
Select(heap, ref, mask, new) ==
    [heap |-> [heap EXCEPT ![new] = BoolIndex(heap[ref], mask)], ref |-> new]

\* obj[c] = values, obj a DataFrame value
WithColumn(obj, c, values) ==
    [columns |-> IF c \in Range(obj.columns) THEN obj.columns
                 ELSE Append(obj.columns, c),
     index |-> obj.index,
     rows |-> [i \in 1..Len(obj.rows) |->
                 [k \in (DOMAIN obj.rows[i]) \cup {c} |->
                    IF k = c THEN values[i] ELSE obj.rows[i][k]]]]

\* ref[c] = values
SetItem(heap, ref, c, values) ==
    [heap EXCEPT ![ref] = WithColumn(@, c, values)]

(***************************************************************************)
(* The script, app.py top to bottom                                        *)
(***************************************************************************)
\* lines 21-28: load_data() under st.cache_data: the files are read on the first
\* call; every call hands the script its own copies of the cached tables
CachedLoad ==
    IF cache.hit THEN cache
    ELSE [hit |-> TRUE,
          matches |-> load_data(files.m, files.d).matches,
          deliveries |-> load_data(files.m, files.d).deliveries]

\* the objects of a run as it starts
StartHeap(c) ==
    [o \in Objects |->
        CASE o = "matches" -> c.matches
          [] o = "deliveries" -> c.deliveries
          [] OTHER -> Unset]

\* lines 37-41: the options of the two select boxes
SeasonOptions(m) == {"All"} \cup Range(Column(m, "season").values)

TeamOptions(m) ==
    {"All"} \cup Range(Column(m, "team1").values)
            \cup Range(Column(m, "team2").values)

\* mutation of MatchesCopy: df is kept from the run before
MatchesCopyStale(heap) ==
    IF status = "new" THEN Copy(heap, "matches", "copy1")
    ELSE [heap |-> [heap EXCEPT !["copy1"] = df], ref |-> "copy1"]

\* line 44: df = matches.copy()
MatchesCopy(heap) == Copy(heap, "matches", "copy1")

\* line 46: df["season"] == selected_season
SeasonMask(d, season) == [i \in 1..Len(d.rows) |-> d.rows[i].season = season]

\* mutation of TeamMask: team2 is not looked at
TeamMaskTeam1Only(d, team) == [i \in 1..Len(d.rows) |-> d.rows[i].team1 = team]

\* line 48: (df["team1"] == selected_team) | (df["team2"] == selected_team)
TeamMask(d, team) ==
    [i \in 1..Len(d.rows) |->
        \/ d.rows[i].team1 = team
        \/ d.rows[i].team2 = team]

\* lines 45-46
FilterSeason(s, season) ==
    IF season # "All"
    THEN Select(s.heap, s.ref, SeasonMask(s.heap[s.ref], season), "sel1")
    ELSE s

\* lines 47-48
FilterTeam(s, team) ==
    IF team # "All"
    THEN Select(s.heap, s.ref, TeamMask(s.heap[s.ref], team), "sel2")
    ELSE s

\* lines 44-48: the filter; [heap, ref], ref the object df names afterwards
Filter(heap, season, team) ==
    FilterTeam(FilterSeason(MatchesCopy(heap), season), team)

\* mutation of Kpi: venues counts rows, not distinct values
KpiVenuesByRows(d) ==
    [total |-> Len(d.rows),
     venues |-> Len(d.rows),
     cities |-> Nunique(Column(d, "city")),
     seasons |-> Nunique(Column(d, "season"))]

\* lines 61-64: the KPI cards
Kpi(d) ==
    [total |-> Len(d.rows),
     venues |-> Nunique(Column(d, "venue")),
     cities |-> Nunique(Column(d, "city")),
     seasons |-> Nunique(Column(d, "season"))]

\* lines 75-76
Wins(d) ==
    SetColumns(ResetIndex(ValueCounts(Column(d, "winner"))), <<"Team", "Wins">>)

\* lines 85-86
Toss(d) ==
    SetColumns(ResetIndex(ValueCounts(Column(d, "toss_decision"))),
               <<"Decision", "Count">>)

\* mutation of SeasonMatches: grouped over df
SeasonMatchesFiltered(m, d) == ResetIndexAs(GroupBySize(d, "season"), "Matches")

\* line 100: over matches (m), not over df (d)
SeasonMatches(m, d) == ResetIndexAs(GroupBySize(m, "season"), "Matches")

\* mutation of TossMatchWin: a missing winner counts as a toss that helped
TossMatchWinNoResultYes(d) ==
    [i \in 1..Len(d.rows) |->
        \/ IsNa("winner", d.rows[i].winner)
        \/ d.rows[i].toss_winner = d.rows[i].winner]

\* line 110: the values of the derived column
TossMatchWin(d) == SeriesEq(Column(d, "toss_winner"), Column(d, "winner"))

\* lines 109-110: df_toss = df.copy() and its new column; [heap, ref]
WithTossColumn(c) ==
    [heap |-> SetItem(c.heap, c.ref, "toss_match_win", TossMatchWin(c.heap[c.ref])),
     ref |-> c.ref]

DfToss(f) == WithTossColumn(Copy(f.heap, f.ref, "copy2"))

\* line 113, on the result t of line 112
MapWonColumn(t) ==
    IF ~t.ok THEN t
    ELSE [ok |-> TRUE,
          value |-> [t.value EXCEPT !.rows =
             [i \in 1..Len(@) |->
                [@[i] EXCEPT !["Won Match After Toss"] =
                    MapYesNo(Column(t.value, "Won Match After Toss")).values[i]]]]]

\* lines 111-113
TossEffect(dt) ==
    MapWonColumn(SetColumns(ResetIndex(ValueCounts(Column(dt, "toss_match_win"))),
                            <<"Won Match After Toss", "Count">>))

\* lines 127-128
VenueCounts(d) ==
    SetColumns(ResetIndex(HeadSeries(ValueCounts(Column(d, "venue")), TopN)),
               <<"Venue", "Matches">>)

\* lines 137-138
Potm(d) ==
    SetColumns(ResetIndex(HeadSeries(ValueCounts(Column(d, "player_of_match")), TopN)),
               <<"Player", "Awards">>)

\* lines 157 and 171: sort_values(col, ascending=False).head(10)
TopOf(t, col) ==
    IF ~t.ok THEN t
    ELSE [ok |-> TRUE, value |-> HeadFrame(SortValuesDesc(t.value, col), TopN)]

\* lines 155-157
TopBatsmen(dl) ==
    TopOf(SetColumns(ResetIndex(GroupBySum(dl, "batter", "batsman_runs")),
                     <<"Batter", "Total Runs">>),
          "Total Runs")

\* line 166
WicketBalls(dl) ==
    BoolIndex(dl, [i \in 1..Len(dl.rows) |-> dl.rows[i].is_wicket = 1])

\* line 168
NotRunOut(w) ==
    BoolIndex(w, [i \in 1..Len(w.rows) |-> w.rows[i].dismissal_kind # "run out"])

\* mutation of Wickets: line 168 left out
WicketsRunOutsKept(dl) == WicketBalls(dl)

\* lines 166-168: the balls credited to the bowler

Wickets(dl) == NotRunOut(WicketBalls(dl))

\* lines 169-171
TopBowlers(dl) ==
    TopOf(SetColumns(ResetIndex(GroupBySum(Wickets(dl), "bowler", "is_wicket")),
                     <<"Bowler", "Wickets">>),
          "Wickets")

\* line 188 and line 198: df[df["result"] == result]
OfResult(d, result) ==
    BoolIndex(d, [i \in 1..Len(d.rows) |-> d.rows[i].result = result])

\* lines 188 and 198
BiggestWins(d, result) ==
    Project(NLargest(OfResult(d, result), TopN, "result_margin"),
            <<"winner", "result_margin", "season">>)

\* line 211: the projection under reset_index(drop=True)
RawTable(d) ==
    [Project(d, <<"season", "date", "team1", "team2", "winner", "venue",
                  "player_of_match", "toss_winner", "toss_decision">>)
        EXCEPT !.index = [i \in 1..Len(@) |-> i - 1]]

\* Every chart table of a run, [ok, value] each: ok is FALSE when the chart's
\* lines raise.  d is df as the filter left it, d1 is df after line 110, m is
\* matches, dt is df_toss, dl is deliveries.
Steps(d, d1, m, dt, dl) ==
    [c \in Range(Charts) |->
        CASE c = "wins" -> Wins(d)
          [] c = "toss" -> Toss(d)
          [] c = "season_matches" -> [ok |-> TRUE, value |-> SeasonMatches(m, d)]
          [] c = "toss_effect" -> TossEffect(dt)
          [] c = "venue_counts" -> VenueCounts(d1)
          [] c = "potm" -> Potm(d1)
          [] c = "top_batsmen" -> TopBatsmen(dl)
          [] c = "top_bowlers" -> TopBowlers(dl)
          [] c = "by_runs" -> [ok |-> TRUE, value |-> BiggestWins(d1, "runs")]
          [] c = "by_wkts" -> [ok |-> TRUE, value |-> BiggestWins(d1, "wickets")]
          [] OTHER -> [ok |-> TRUE, value |-> RawTable(d1)]]

\* how many charts the run shows: all of them, or those before the first that raises
ShownCount(step) ==
    IF \A i \in 1..Len(Charts) : step[Charts[i]].ok THEN Len(Charts)
    ELSE (CHOOSE i \in 1..Len(Charts) :
             /\ ~step[Charts[i]].ok
             /\ \A j \in 1..(i - 1) : step[Charts[j]].ok) - 1

\* the value of chart c when the run ends
ChartValue(step, n, c) ==
    IF c \in Range(SubSeq(Charts, 1, n)) THEN step[c].value ELSE Unset

\* The names of the script when a run ends.  c is the cache, f the filter's
\* [heap, ref], t the [heap, ref] of df_toss, step the chart tables, n the
\* number of charts shown.  Lines 109-110 run when the first three charts did.
RunEnd(c, f, t, step, n) ==
    [cache |-> c,
     matches |-> IF n >= 3 THEN t.heap["matches"] ELSE f.heap["matches"],
     deliveries |-> IF n >= 3 THEN t.heap["deliveries"] ELSE f.heap["deliveries"],
     df |-> IF n >= 3 THEN t.heap[f.ref] ELSE f.heap[f.ref],
     kpi |-> Kpi(f.heap[f.ref]),
     df_toss |-> IF n >= 3 THEN t.heap[t.ref] ELSE Unset,
     wins |-> ChartValue(step, n, "wins"),
     toss |-> ChartValue(step, n, "toss"),
     season_matches |-> ChartValue(step, n, "season_matches"),
     toss_effect |-> ChartValue(step, n, "toss_effect"),
     venue_counts |-> ChartValue(step, n, "venue_counts"),
     potm |-> ChartValue(step, n, "potm"),
     top_batsmen |-> ChartValue(step, n, "top_batsmen"),
     top_bowlers |-> ChartValue(step, n, "top_bowlers"),
     by_runs |-> ChartValue(step, n, "by_runs"),
     by_wkts |-> ChartValue(step, n, "by_wkts"),
     raw |-> ChartValue(step, n, "raw"),
     rendered |-> SubSeq(Charts, 1, n),
     status |-> IF n = Len(Charts) THEN "done" ELSE "error"]

RunCharts(c, f, t, step) == RunEnd(c, f, t, step, ShownCount(step))

RunToss(c, f, t) ==
    RunCharts(c, f, t,
              Steps(f.heap[f.ref], t.heap[f.ref], f.heap["matches"],
                    t.heap[t.ref], t.heap["deliveries"]))

RunFiltered(c, f) == RunToss(c, f, DfToss(f))

RunLoaded(c, season, team) == RunFiltered(c, Filter(StartHeap(c), season, team))

\* One run of the script with the two selections: the value of every name when
\* the script ends, the charts it showed, and how it ended.
Script(season, team) == RunLoaded(CachedLoad, season, team)

\* what the page shows after a run
Shown ==
    [df |-> df, kpi |-> kpi, wins |-> wins, toss |-> toss,
     season_matches |-> season_matches, toss_effect |-> toss_effect,
     venue_counts |-> venue_counts, potm |-> potm,
     top_batsmen |-> top_batsmen, top_bowlers |-> top_bowlers,
     by_runs |-> by_runs, by_wkts |-> by_wkts, raw |-> raw,
     rendered |-> rendered, status |-> status]

\* the script runs with the selections (season, team)
Rerun(season, team) ==
    \E r \in {Script(season, team)} :
        /\ cache' = r.cache
        /\ selected_season' = season
        /\ selected_team' = team
        /\ matches' = r.matches
        /\ deliveries' = r.deliveries
        /\ df' = r.df
        /\ kpi' = r.kpi
        /\ wins' = r.wins
        /\ toss' = r.toss
        /\ season_matches' = r.season_matches
        /\ df_toss' = r.df_toss
        /\ toss_effect' = r.toss_effect
        /\ venue_counts' = r.venue_counts
        /\ potm' = r.potm
        /\ top_batsmen' = r.top_batsmen
        /\ top_bowlers' = r.top_bowlers
        /\ by_runs' = r.by_runs
        /\ by_wkts' = r.by_wkts
        /\ raw' = r.raw
        /\ rendered' = r.rendered
        /\ status' = r.status
        /\ UNCHANGED files

(***************************************************************************)
(* Init: a session opens.  The two files are on disk, nothing is cached    *)
(* and the script has not run; both select boxes show their first option,  *)
(* "All".                                                                  *)
(***************************************************************************)
InitWith(F) ==
    \E f \in F :
        /\ files = f
        /\ cache = [hit |-> FALSE, matches |-> Unset, deliveries |-> Unset]
        /\ selected_season = "All"
        /\ selected_team = "All"
        /\ matches = Unset
        /\ deliveries = Unset
        /\ df = Unset
        /\ kpi = [total |-> 0, venues |-> 0, cities |-> 0, seasons |-> 0]
        /\ wins = Unset
        /\ toss = Unset
        /\ season_matches = Unset
        /\ df_toss = Unset
        /\ toss_effect = Unset
        /\ venue_counts = Unset
        /\ potm = Unset
        /\ top_batsmen = Unset
        /\ top_bowlers = Unset
        /\ by_runs = Unset
        /\ by_wkts = Unset
        /\ raw = Unset
        /\ rendered = <<>>
        /\ status = "new"
        /\ snap = [season |-> "", team |-> "", between |-> FALSE, out |-> Unset]

Init == InitWith(MatchFiles)

InitDeliveries == InitWith(DeliveryFiles)

InitHistory == InitWith(HistoryFiles)

\* history: snap.between says whether a run with other selections than snap's
\* came after the run snap records
Later ==
    snap' = [snap EXCEPT !.between = @ \/ snap.season # selected_season'
                                       \/ snap.team # selected_team']

\* the page is opened: the first run of the script; snap records it
Open ==
    /\ status = "new"
    /\ Rerun("All", "All")
    /\ snap' = [season |-> "All", team |-> "All", between |-> FALSE, out |-> Shown']

\* the user picks another season in the sidebar
SelectSeason ==
    /\ status # "new"
    /\ \E s \in SeasonOptions(matches) \ {selected_season} :
           Rerun(s, selected_team)
    /\ Later

\* the user picks another team in the sidebar
SelectTeam ==
    /\ status # "new"
    /\ \E t \in TeamOptions(matches) \ {selected_team} :
           Rerun(selected_season, t)
    /\ Later

\* the user reruns the page with the selections as they are
RerunPage ==
    /\ status # "new"
    /\ Rerun(selected_season, selected_team)
    /\ Later

\* history only: snap records the selections and the page as they are
Snapshot ==
    /\ status # "new"
    /\ snap' = [season |-> selected_season, team |-> selected_team,
                between |-> FALSE, out |-> Shown]
    /\ UNCHANGED <<files, cache, matches, deliveries, selected_season,
                   selected_team, df, kpi, wins, toss, season_matches, df_toss,
                   toss_effect, venue_counts, potm, top_batsmen, top_bowlers,
                   by_runs, by_wkts, raw, rendered, status>>

Next == Open \/ SelectSeason \/ SelectTeam \/ RerunPage

NextHistory == Open \/ SelectSeason \/ SelectTeam \/ RerunPage \/ Snapshot

Spec == Init /\ [][Next]_vars

SpecDeliveries == InitDeliveries /\ [][Next]_vars

SpecHistory == InitHistory /\ [][NextHistory]_vars

(***************************************************************************)
(* Properties                                                              *)
(***************************************************************************)
\* the script has run at least once in this session
Ran == status # "new"

\* the tables the initial load produces
Loaded == load_data(files.m, files.d)

\* the rows of t with r[c] = v
RowsWith(t, c, v) == SelectSeq(t.rows, LAMBDA r : r[c] = v)

\* the count a two-column count table t gives for key k (0 when k is absent)
CountFor(t, keycol, cntcol, k) ==
    SumSeq(Column([columns |-> t.columns, index |-> <<>>,
                   rows |-> RowsWith(t, keycol, k)], cntcol).values)

\* row r of the match table passes the filter (season, team)
Passes(r, season, team) ==
    /\ (season = "All" \/ r.season = season)
    /\ (team = "All" \/ r.team1 = team \/ r.team2 = team)

\* C1: after a run, df holds exactly the rows of the full match table that have
\* the selected season (or any, under "All") and the selected team as team1 or
\* team2 (or any, under "All"), in their order; it is never longer than the
\* full table, and under ("All", "All") it is the full table.
C1_FilterExact ==
    Ran =>
      /\ df.rows = SelectSeq(Loaded.matches.rows,
                      LAMBDA r : Passes(r, selected_season, selected_team))
      /\ Range(df.rows) \subseteq Range(Loaded.matches.rows)
      /\ Len(df.rows) <= Len(Loaded.matches.rows)
      /\ (selected_season = "All" /\ selected_team = "All") => df = Loaded.matches

\* C1 witness: both filters set, the team matched through team2, rows cut
C1_Witness ==
    /\ Ran
    /\ selected_season # "All"
    /\ selected_team # "All"
    /\ Len(df.rows) > 0
    /\ Len(df.rows) < Len(Loaded.matches.rows)
    /\ \E i \in 1..Len(df.rows) : df.rows[i].team2 = selected_team

\* the rows of d whose value in column c is not missing
Present(d, c) == SelectSeq(d.rows, LAMBDA r : ~IsNa(c, r[c]))

\* C2 as stated: the counts of wins, and of toss, sum to the number of rows of
\* df, a missing winner being a category of its own.
C2_CountsSumToRows ==
    (Ran /\ status = "done") =>
      /\ SumSeq(Column(wins, "Wins").values) = Len(df.rows)
      /\ SumSeq(Column(toss, "Count").values) = Len(df.rows)

\* C2 amended: the counts of wins (of toss) sum to the number of rows of df whose
\* winner (toss_decision) is not missing; a row with a missing value is dropped
\* and no missing category appears; every other row is counted once, under its
\* own value.
C2_CountsSumToPresentRows ==
    (Ran /\ status = "done") =>
      /\ SumSeq(Column(wins, "Wins").values) = Len(Present(df, "winner"))
      /\ SumSeq(Column(toss, "Count").values) = Len(Present(df, "toss_decision"))
      /\ \A i \in 1..Len(wins.rows) :
            /\ wins.rows[i].Team # NaN
            /\ wins.rows[i].Wins = Len(RowsWith(df, "winner", wins.rows[i].Team))
            /\ \A j \in 1..Len(wins.rows) :
                  wins.rows[j].Team = wins.rows[i].Team => j = i
      /\ \A i \in 1..Len(toss.rows) :
            /\ toss.rows[i].Decision # NaN
            /\ toss.rows[i].Count =
                  Len(RowsWith(df, "toss_decision", toss.rows[i].Decision))
            /\ \A j \in 1..Len(toss.rows) :
                  toss.rows[j].Decision = toss.rows[i].Decision => j = i

\* C2 witness: df holds a row with a missing winner and a row with a winner
C2_Witness ==
    /\ Ran
    /\ status = "done"
    /\ Len(Present(df, "winner")) > 0
    /\ Len(Present(df, "winner")) < Len(df.rows)
    /\ Len(wins.rows) > 0

\* the charts that depend on the filter
FilteredCharts ==
    {"wins", "toss", "toss_effect", "venue_counts", "potm", "by_runs", "by_wkts"}

\* C3: when the filter leaves no row, the run ends without an error, every
\* chart is shown, and each chart that depends on the filter is an empty table
\* with its columns.
C3_EmptyFilterRenders ==
    (Ran /\ Len(df.rows) = 0) =>
      /\ status = "done"
      /\ FilteredCharts \subseteq Range(rendered)
      /\ rendered = Charts
      /\ wins = [columns |-> <<"Team", "Wins">>, index |-> <<>>, rows |-> <<>>]
      /\ toss = [columns |-> <<"Decision", "Count">>, index |-> <<>>, rows |-> <<>>]
      /\ toss_effect = [columns |-> <<"Won Match After Toss", "Count">>,
                        index |-> <<>>, rows |-> <<>>]
      /\ venue_counts = [columns |-> <<"Venue", "Matches">>, index |-> <<>>,
                         rows |-> <<>>]
      /\ potm = [columns |-> <<"Player", "Awards">>, index |-> <<>>, rows |-> <<>>]
      /\ by_runs = [columns |-> <<"winner", "result_margin", "season">>,
                    index |-> <<>>, rows |-> <<>>]
      /\ by_wkts = by_runs

\* C3 witness: a season and a team of the table that share no match
C3_Witness ==
    /\ Ran
    /\ selected_season \in Range(Column(matches, "season").values)
    /\ selected_team \in TeamOptions(matches) \ {"All"}
    /\ Len(df.rows) = 0
    /\ status = "done"

\* the positions in d (= df) of the rows of result type t
Candidates(d, t) ==
    SelectSeq(Iota(Len(d.rows)), LAMBDA i : d.rows[i].result = t)

\* table by is a correct biggest-wins selection of type t from d: by.index holds
\* the labels of the chosen rows (label = position - 1 in the full table)
BiggestWinsOk(d, by, t) ==
    /\ Len(by.rows) = Min(TopN, Len(Candidates(d, t)))
    /\ \A k \in 1..Len(by.rows) :
          /\ \E i \in Range(Candidates(d, t)) :
                /\ d.index[i] = by.index[k]
                /\ d.rows[i].result_margin = by.rows[k].result_margin
                /\ d.rows[i].winner = by.rows[k].winner
          /\ \A j \in 1..Len(by.rows) : by.index[j] = by.index[k] => j = k
    /\ \A i \in Range(Candidates(d, t)) :
          d.index[i] \notin Range(by.index) =>
             \A k \in 1..Len(by.rows) :
                /\ by.rows[k].result_margin >= d.rows[i].result_margin
                \* equal margins are selected in row order
                /\ by.rows[k].result_margin = d.rows[i].result_margin
                      => by.index[k] < d.index[i]
    \* equal margins are listed in row order
    /\ \A j, k \in 1..Len(by.rows) :
          (j < k /\ by.rows[j].result_margin = by.rows[k].result_margin)
             => by.index[j] < by.index[k]

\* C4: by_runs (by_wkts) holds min(10, rows of df won by runs (wickets)) rows,
\* all of that result type; every margin in it is >= the margin of every row of
\* that type left out; rows of equal margin are chosen and listed in row order.
C4_BiggestWins ==
    (Ran /\ status = "done") =>
      /\ BiggestWinsOk(df, by_runs, "runs")
      /\ BiggestWinsOk(df, by_wkts, "wickets")

\* C4 witness: more than ten wins by runs, and a row left out whose margin
\* equals that of a chosen row
C4_Witness ==
    /\ Ran
    /\ status = "done"
    /\ Len(Candidates(df, "runs")) > TopN
    /\ Len(by_runs.rows) = TopN
    /\ \E i \in Range(Candidates(df, "runs")) :
          /\ df.index[i] \notin Range(by_runs.index)
          /\ \E k \in 1..TopN :
                by_runs.rows[k].result_margin = df.rows[i].result_margin

\* the balls of dl credited to bowler b
Credited(dl, b) ==
    SelectSeq(dl.rows, LAMBDA r : /\ r.bowler = b
                                  /\ r.is_wicket = 1
                                  /\ r.dismissal_kind # "run out")

\* the bowlers of dl with a credited ball
CreditedBowlers(dl) ==
    {b \in Range(Column(dl, "bowler").values) : Len(Credited(dl, b)) > 0}

\* C5: every bowler of top_bowlers has as its total the number of its balls with
\* is_wicket = 1 that are no run out; no bowler is listed twice; the table lists
\* min(10, bowlers with such a ball) bowlers, so a run out adds to no total.
C5_RunOutsExcluded ==
    (Ran /\ status = "done") =>
      /\ \A i \in 1..Len(top_bowlers.rows) :
            /\ top_bowlers.rows[i].Wickets =
                  Len(Credited(Loaded.deliveries, top_bowlers.rows[i].Bowler))
            /\ top_bowlers.rows[i].Wickets > 0
            /\ \A j \in 1..Len(top_bowlers.rows) :
                  top_bowlers.rows[j].Bowler = top_bowlers.rows[i].Bowler => j = i
      /\ Len(top_bowlers.rows) =
            Min(TopN, Cardinality(CreditedBowlers(Loaded.deliveries)))

\* C5 witness: the balls (X, caught), (X, run out), (Y, bowled) give X:1, Y:1
C5_Witness ==
    /\ Ran
    /\ status = "done"
    /\ Len(deliveries.rows) = 3
    /\ Column(deliveries, "bowler").values = <<"P02", "P02", "P03">>
    /\ Column(deliveries, "is_wicket").values = <<1, 1, 1>>
    /\ Column(deliveries, "dismissal_kind").values = <<"caught", "run out", "bowled">>
    /\ Column(top_bowlers, "Bowler").values = <<"P02", "P03">>
    /\ Column(top_bowlers, "Wickets").values = <<1, 1>>

\* C6: a run with the selections of an earlier run shows what that run showed
\* (df, the KPIs, every chart table), whatever was selected in between.
C6_SameFilterSamePage ==
    (Ran /\ snap.season = selected_season /\ snap.team = selected_team)
       => snap.out = Shown

\* C6 witness: the selections of the recorded run are back after a run with
\* other selections
C6_Witness ==
    /\ Ran
    /\ snap.between
    /\ snap.season = selected_season
    /\ snap.team = selected_team
    /\ selected_season # "All"
    /\ Len(df.rows) > 0
    /\ Len(df.rows) < Len(matches.rows)

\* the values of column c of d that are not missing
ValuesOf(d, c) == {d.rows[i][c] : i \in 1..Len(d.rows)} \ {NaN}

\* C7: the four KPIs are the number of rows of df and the numbers of distinct
\* venues, cities and seasons among them; each distinct count is <= the row
\* count, and a one-row df has one venue.
C7_Kpis ==
    Ran =>
      /\ kpi.total = Len(df.rows)
      /\ kpi.venues = Cardinality(ValuesOf(df, "venue"))
      /\ kpi.cities = Cardinality(ValuesOf(df, "city"))
      /\ kpi.seasons = Cardinality(ValuesOf(df, "season"))
      /\ kpi.venues <= kpi.total
      /\ kpi.cities <= kpi.total
      /\ kpi.seasons <= kpi.total
      /\ Len(df.rows) = 1 => kpi.venues = 1

\* C7 witness: the filter leaves one row of a table of two
C7_Witness ==
    /\ Ran
    /\ Len(matches.rows) = 2
    /\ Len(df.rows) = 1
    /\ kpi.venues = 1
    /\ kpi.total = 1

\* C8: after any run, the cached tables and the tables the script holds as
\* matches and deliveries are the tables of the initial load: no row or column
\* added, removed or rewritten.
C8_TablesUntouched ==
    Ran =>
      /\ cache.matches = Loaded.matches
      /\ cache.deliveries = Loaded.deliveries
      /\ matches = Loaded.matches
      /\ deliveries = Loaded.deliveries

\* C8 witness: a run has filtered and has added toss_match_win to df_toss
C8_Witness ==
    /\ Ran
    /\ Len(df_toss.rows) > 0
    /\ Len(df_toss.rows) < Len(matches.rows)
    /\ "toss_match_win" \in Range(df_toss.columns)
    /\ "toss_match_win" \notin Range(df.columns)

\* the rows of d whose winner is not missing and is the toss winner
TossHelped(d) ==
    SelectSeq(d.rows, LAMBDA r : r.winner # NaN /\ r.winner = r.toss_winner)

\* C9: toss_effect counts under "Yes" the rows whose winner is not missing and
\* equals toss_winner, under "No" every other row (a missing winner too); the
\* two counts sum to the rows of df and there is no other category.
C9_TossEffect ==
    (Ran /\ status = "done") =>
      /\ \A i \in 1..Len(toss_effect.rows) :
            toss_effect.rows[i]["Won Match After Toss"] \in {"Yes", "No"}
      /\ CountFor(toss_effect, "Won Match After Toss", "Count", "Yes")
            = Len(TossHelped(df))
      /\ CountFor(toss_effect, "Won Match After Toss", "Count", "No")
            = Len(df.rows) - Len(TossHelped(df))
      /\ SumSeq(Column(toss_effect, "Count").values) = Len(df.rows)
      /\ Len(toss_effect.rows) <= 2

\* C9 witness: a no-result match counted under "No", beside a "Yes"
C9_Witness ==
    /\ Ran
    /\ status = "done"
    /\ \E i \in 1..Len(df.rows) : df.rows[i].winner = NaN
    /\ CountFor(toss_effect, "Won Match After Toss", "Count", "Yes") = 1
    /\ CountFor(toss_effect, "Won Match After Toss", "Count", "No") = 1

\* the seasons of season_matches are in ascending order
SeasonsAscending(t) ==
    \A i, j \in 1..Len(t.rows) :
        i < j => RankOf(t.rows[i].season) < RankOf(t.rows[j].season)

\* C10: whatever the selections, season_matches, top_batsmen and top_bowlers
\* are those of the first run (under "All", "All"); season_matches has one row
\* per season of the full match table, seasons ascending, each with the number
\* of matches of that season, the counts summing to the full row count.
C10_UnfilteredCharts ==
    (Ran /\ status = "done") =>
      /\ season_matches = snap.out.season_matches
      /\ top_batsmen = snap.out.top_batsmen
      /\ top_bowlers = snap.out.top_bowlers
      /\ SeasonsAscending(season_matches)
      /\ Range(Column(season_matches, "season").values)
            = Range(Column(Loaded.matches, "season").values)
      /\ \A i \in 1..Len(season_matches.rows) :
            season_matches.rows[i].Matches =
               Len(RowsWith(Loaded.matches, "season", season_matches.rows[i].season))
      /\ SumSeq(Column(season_matches, "Matches").values) = Len(Loaded.matches.rows)

\* C10 witness: a season is selected that cuts the table, and season_matches
\* still lists two seasons
C10_Witness ==
    /\ Ran
    /\ status = "done"
    /\ selected_season # "All"
    /\ Len(df.rows) > 0
    /\ Len(df.rows) < Len(matches.rows)
    /\ Len(season_matches.rows) = 2
    /\ Len(top_bowlers.rows) > 0

====
